---- MODULE Spec2Model ----
\* TOTP Viewer (richmondgoh8/totp-viewer): the Go core of main.go
\* (decodeBase32, generateHOTP, generateTOTP, validateTOTP), the HTTP
\* handlers around it and the script of the served page.
\*
\* Representation:
\*   - a string is a sequence of one-character strings;
\*   - a byte slice is a sequence of numbers in 0..255;
\*   - an int64 is an integer; a uint64 is written as the int64 that has the
\*     same 64 bits (uint64(x) of a negative x is 2^64 + x), so that the
\*     conversion uint64(currentCounter + int64(i)) is the identity on the
\*     bits and CounterBytes gives its eight bytes in two's complement;
\*   - HMAC-SHA1 of the Go standard library is computed bit-exactly.
EXTENDS Integers, Sequences, FiniteSets, TLC

VARIABLES
    now,             \* the wall clock: time.Now().Unix()
    pc,              \* "idle", "loop" (inside the for loop of validateTOTP), "done"
    call,            \* the call in progress: function name and arguments
    secretBytes,     \* validateTOTP: the decoded key
    err,             \* the call: decodeBase32 returned an error
    currentCounter,  \* validateTOTP: time.Now().Unix() / StepSize, read once
    i,               \* validateTOTP: the loop variable
    probes,          \* number of generateHOTP evaluations made by the call
    probed,          \* validateTOTP: counter (line 64), the counter of the latest probe
    ret,             \* the value returned by the call
    gen,             \* the latest code handed out by generateTOTP
    sum,             \* generateHOTP: the HMAC-SHA1 digest h.Sum(nil)
    hotp,            \* generateHOTP: offset, value, mod and the code made of the digest
    hashed,          \* generateHOTP: the key and the counter the digest was made of
    page,            \* the browser: "none" until the page of IndexHTML is loaded
    secretInput,     \* the page: value of the field #secret
    totpCode,        \* the page: text of #totpCode
    timerText,       \* the page: text of #timerText, the seconds remaining
    statusBadge,     \* the page: "hidden", "verified" or "invalid"
    refreshTimer,    \* the page: the interval timer of updateProgress is set
    inflight,        \* the requests of the page not yet answered or not yet continued
    sent,            \* every request the script of the page has issued
    exchange,        \* the latest request of another HTTP client and the responses to it
    dec,             \* the decoders: a secret, a respelling of it and what each decodes to
    calls,           \* the goroutines of the server: the locals of the call each one runs
    ser,             \* a counter and the eight bytes each variant makes of it
    app              \* the browser page with accounts: its variables, fields and pending generations

coreVars == << now, pc, call, secretBytes, err, currentCounter, i, probes, probed, ret, gen >>
hotpVars == << sum, hotp, hashed >>
uiVars == << page, secretInput, totpCode, timerText, statusBadge, refreshTimer, inflight, sent, exchange >>
auxVars == << dec, calls, ser, app >>
vars == << coreVars, hotpVars, uiVars, auxVars >>

\* ---------------------------------------------------------------------
\* Constants of main.go
\* ---------------------------------------------------------------------
StepSize == 30

\* ---------------------------------------------------------------------
\* Bit operations on bytes (uint8), as tables built from single bits.
\* ---------------------------------------------------------------------
RECURSIVE BitwiseN(_, _, _, _)
BitwiseN(op, a, b, n) ==
    IF n = 0 THEN 0
    ELSE LET x == a % 2
             y == b % 2
             bit == IF op = "and" THEN x * y
                    ELSE IF op = "or" THEN x + y - x * y
                    ELSE (x + y) % 2
         IN bit + 2 * BitwiseN(op, a \div 2, b \div 2, n - 1)

Nibbles == 0..15
Bytes == 0..255
And4 == [a \in Nibbles |-> [b \in Nibbles |-> BitwiseN("and", a, b, 4)]]
Or4 == [a \in Nibbles |-> [b \in Nibbles |-> BitwiseN("or", a, b, 4)]]
Xor4 == [a \in Nibbles |-> [b \in Nibbles |-> BitwiseN("xor", a, b, 4)]]
And8 == [a \in Bytes |-> [b \in Bytes |-> 16 * And4[a \div 16][b \div 16] + And4[a % 16][b % 16]]]
Or8 == [a \in Bytes |-> [b \in Bytes |-> 16 * Or4[a \div 16][b \div 16] + Or4[a % 16][b % 16]]]
Xor8 == [a \in Bytes |-> [b \in Bytes |-> 16 * Xor4[a \div 16][b \div 16] + Xor4[a % 16][b % 16]]]

\* ---------------------------------------------------------------------
\* SHA-1 (FIPS 180-4) on 32-bit words kept as four bytes, most significant first.
\* ---------------------------------------------------------------------
WAnd(a, b) == << And8[a[1]][b[1]], And8[a[2]][b[2]], And8[a[3]][b[3]], And8[a[4]][b[4]] >>
WOr(a, b) == << Or8[a[1]][b[1]], Or8[a[2]][b[2]], Or8[a[3]][b[3]], Or8[a[4]][b[4]] >>
WXor(a, b) == << Xor8[a[1]][b[1]], Xor8[a[2]][b[2]], Xor8[a[3]][b[3]], Xor8[a[4]][b[4]] >>
WNot(a) == << 255 - a[1], 255 - a[2], 255 - a[3], 255 - a[4] >>

WAdd(a, b) ==
    LET s4 == a[4] + b[4]
        s3 == a[3] + b[3] + (s4 \div 256)
        s2 == a[2] + b[2] + (s3 \div 256)
        s1 == a[1] + b[1] + (s2 \div 256)
    IN << s1 % 256, s2 % 256, s3 % 256, s4 % 256 >>

Pow2(n) == IF n = 0 THEN 1 ELSE IF n = 1 THEN 2 ELSE IF n = 2 THEN 4 ELSE IF n = 3 THEN 8
           ELSE IF n = 4 THEN 16 ELSE IF n = 5 THEN 32 ELSE IF n = 6 THEN 64 ELSE IF n = 7 THEN 128
           ELSE 256

\* rotate left by r bits, 0 < r < 8
RotlBits(a, r) ==
    LET m == Pow2(r)
        d == Pow2(8 - r)
    IN << ((a[1] * m) % 256) + (a[2] \div d), ((a[2] * m) % 256) + (a[3] \div d),
          ((a[3] * m) % 256) + (a[4] \div d), ((a[4] * m) % 256) + (a[1] \div d) >>
RotlBytes(a, q) == [k \in 1..4 |-> a[((k - 1 + q) % 4) + 1]]
Rotl(a, n) == IF n % 8 = 0 THEN RotlBytes(a, n \div 8) ELSE RotlBits(RotlBytes(a, n \div 8), n % 8)

RECURSIVE Schedule(_)
Schedule(w) ==
    IF Len(w) >= 80 THEN w
    ELSE LET t == Len(w) + 1
         IN Schedule(Append(w, Rotl(WXor(WXor(w[t-3], w[t-8]), WXor(w[t-14], w[t-16])), 1)))

RoundK(t) == IF t <= 20 THEN <<90, 130, 121, 153>>
             ELSE IF t <= 40 THEN <<110, 217, 235, 161>>
             ELSE IF t <= 60 THEN <<143, 27, 188, 220>>
             ELSE <<202, 98, 193, 214>>

RoundF(t, b, c, d) == IF t <= 20 THEN WOr(WAnd(b, c), WAnd(WNot(b), d))
                      ELSE IF t <= 40 THEN WXor(WXor(b, c), d)
                      ELSE IF t <= 60 THEN WOr(WOr(WAnd(b, c), WAnd(b, d)), WAnd(c, d))
                      ELSE WXor(WXor(b, c), d)

\* s = <<a, b, c, d, e, t>>: the five working words and the number of the next round
RECURSIVE Rounds(_, _)
Rounds(s, w) ==
    IF s[6] > 80 THEN s
    ELSE LET t == s[6]
             tmp == WAdd(WAdd(WAdd(WAdd(Rotl(s[1], 5), RoundF(t, s[2], s[3], s[4])), s[5]), RoundK(t)), w[t])
         IN Rounds(<<tmp, s[1], Rotl(s[2], 30), s[3], s[4], t + 1>>, w)

Compress(h, blk) ==
    LET w == Schedule([k \in 1..16 |-> SubSeq(blk, 4 * k - 3, 4 * k)])
        r == Rounds(h \o <<1>>, w)
    IN [k \in 1..5 |-> WAdd(h[k], r[k])]

SHA1Init == << <<103, 69, 35, 1>>, <<239, 205, 171, 137>>, <<152, 186, 220, 254>>,
               <<16, 50, 84, 118>>, <<195, 210, 225, 240>> >>

Zeros(n) == [k \in 1..n |-> 0]

\* padding of a message of n bytes that follows `done` bytes already hashed
SHA1Pad(n, done) ==
    LET total == n + done
        z == (119 - (total % 64)) % 64
    IN <<128>> \o Zeros(z) \o << 0, 0, 0, 0, 0, (total * 8) \div 65536, ((total * 8) \div 256) % 256, (total * 8) % 256 >>

RECURSIVE SHA1Blocks(_, _)
SHA1Blocks(h, m) ==
    IF Len(m) = 0 THEN h ELSE SHA1Blocks(Compress(h, SubSeq(m, 1, 64)), SubSeq(m, 65, Len(m)))

SHA1Bytes(h) == h[1] \o h[2] \o h[3] \o h[4] \o h[5]
SHA1(msg) == SHA1Bytes(SHA1Blocks(SHA1Init, msg \o SHA1Pad(Len(msg), 0)))

\* HMAC (RFC 2104): the hash states after the inner and the outer key block
HmacKeyBlock(k0) == k0 \o Zeros(64 - Len(k0))
HmacPads(k) ==
    [inner |-> Compress(SHA1Init, [j \in 1..64 |-> Xor8[k[j]][54]]),
     outer |-> Compress(SHA1Init, [j \in 1..64 |-> Xor8[k[j]][92]])]
HmacNew(key) == HmacPads(HmacKeyBlock(IF Len(key) > 64 THEN SHA1(key) ELSE key))

HmacSum(h, msg) ==
    LET in == SHA1Bytes(SHA1Blocks(h.inner, msg \o SHA1Pad(Len(msg), 64)))
    IN SHA1Bytes(SHA1Blocks(h.outer, in \o SHA1Pad(20, 64)))
\* ---------------------------------------------------------------------
\* Strings
\* ---------------------------------------------------------------------
Upper == << "A", "B", "C", "D", "E", "F", "G", "H", "I", "J", "K", "L", "M",
            "N", "O", "P", "Q", "R", "S", "T", "U", "V", "W", "X", "Y", "Z" >>
Lower == << "a", "b", "c", "d", "e", "f", "g", "h", "i", "j", "k", "l", "m",
            "n", "o", "p", "q", "r", "s", "t", "u", "v", "w", "x", "y", "z" >>
DigitChars == << "0", "1", "2", "3", "4", "5", "6", "7", "8", "9" >>

\* strings.ToUpper
ToUpperChar(c) == IF \E n \in 1..26 : Lower[n] = c
                  THEN Upper[CHOOSE n \in 1..26 : Lower[n] = c]
                  ELSE c
ToUpper(s) == [k \in 1..Len(s) |-> ToUpperChar(s[k])]

\* strings.ReplaceAll(s, old, "") for a one-character old
RemoveAll(s, old) == SelectSeq(s, LAMBDA c : c # old)

\* strings.Repeat
Repeat(c, n) == [k \in 1..n |-> c]

\* ---------------------------------------------------------------------
\* encoding/base32: StdEncoding.DecodeString
\* ---------------------------------------------------------------------
encodeStd == Upper \o << "2", "3", "4", "5", "6", "7" >>
padChar == "="

\* decodeMap: the 5-bit value of a symbol, 0xFF for every other character
decodeMap(c) == IF \E n \in 1..32 : encodeStd[n] = c
                THEN (CHOOSE n \in 1..32 : encodeStd[n] = c) - 1
                ELSE 255

stripNewlines(s) == SelectSeq(s, LAMBDA c : c # "\r" /\ c # "\n")

\* One quantum of up to eight symbols: the inner loop of Encoding.decode.
\* dbuf holds the values read so far (j = Len(dbuf)).
RECURSIVE decodeQuantum(_, _)
decodeQuantum(src, dbuf) ==
    LET j == Len(dbuf)
        bad == [err |-> TRUE, dbuf |-> dbuf, dlen |-> 0, end |-> FALSE, src |-> src]
    IN IF j = 8 THEN [err |-> FALSE, dbuf |-> dbuf, dlen |-> 8, end |-> FALSE, src |-> src]
       ELSE IF Len(src) = 0 THEN bad
       ELSE LET in == Head(src)
                rest == Tail(src)
            IN IF in = padChar /\ j >= 2 /\ Len(rest) < 8
               THEN IF Len(rest) + j < 8 - 1 THEN bad
                    ELSE IF \E k \in 0..(8 - 1 - j - 1) : Len(rest) > k /\ rest[k + 1] # padChar THEN bad
                    ELSE IF j = 1 \/ j = 3 \/ j = 6 THEN bad
                    ELSE [err |-> FALSE, dbuf |-> dbuf, dlen |-> j, end |-> TRUE, src |-> rest]
               ELSE IF decodeMap(in) = 255 THEN bad
               ELSE decodeQuantum(rest, Append(dbuf, decodeMap(in)))

\* Pack 8x 5-bit source blocks into a 5 byte destination quantum
packQuantum(dbuf, dlen) ==
    LET d == dbuf \o [k \in 1..(8 - Len(dbuf)) |-> 0]
        n == IF dlen = 8 THEN 5 ELSE IF dlen = 7 THEN 4 ELSE IF dlen = 5 THEN 3
             ELSE IF dlen = 4 THEN 2 ELSE IF dlen = 2 THEN 1 ELSE 0
        out == << ((d[1] * 8) % 256) + (d[2] \div 4),
                  ((d[2] * 64) % 256) + ((d[3] * 2) % 256) + (d[4] \div 16),
                  ((d[4] * 16) % 256) + (d[5] \div 2),
                  ((d[5] * 128) % 256) + ((d[6] * 4) % 256) + (d[7] \div 8),
                  ((d[7] * 32) % 256) + d[8] >>
    IN SubSeq(out, 1, n)

RECURSIVE decode(_, _)
decode(dst, src) ==
    IF Len(src) = 0 THEN [bytes |-> dst, err |-> FALSE]
    ELSE LET q == decodeQuantum(src, << >>)
         IN IF q.err THEN [bytes |-> dst, err |-> TRUE]
            ELSE IF q.end THEN [bytes |-> dst \o packQuantum(q.dbuf, q.dlen), err |-> FALSE]
            ELSE decode(dst \o packQuantum(q.dbuf, q.dlen), q.src)

DecodeString(s) == decode(<< >>, stripNewlines(s))

\* ---------------------------------------------------------------------
\* main.go: decodeBase32
\* ---------------------------------------------------------------------
\* decodeBase32 that drops every character outside the alphabet
decodeBase32Raw_lenient(secret) ==
    LET s == SelectSeq(ToUpper(RemoveAll(secret, " ")), LAMBDA c : decodeMap(c) # 255)
        pad == Len(s) % 8
    IN DecodeString(IF pad # 0 THEN s \o Repeat("=", 8 - pad) ELSE s)

decodeBase32Raw(secret) ==
    LET s == ToUpper(RemoveAll(secret, " "))
        pad == Len(s) % 8
    IN DecodeString(IF pad # 0 THEN s \o Repeat("=", 8 - pad) ELSE s)

\* ---------------------------------------------------------------------
\* Go integer arithmetic
\* ---------------------------------------------------------------------
\* x / y on int64 truncates toward zero
GoDiv(x, y) == IF x >= 0 THEN x \div y ELSE -((-x) \div y)

\* x % y on int64 has the sign of x
GoMod(x, y) == x - y * GoDiv(x, y)

\* a & b and a | b on non-negative ints below 2^31
RECURSIVE AndInt(_, _)
AndInt(a, b) == IF a = 0 \/ b = 0 THEN 0
                ELSE And8[a % 256][b % 256] + 256 * AndInt(a \div 256, b \div 256)
RECURSIVE OrInt(_, _)
OrInt(a, b) == IF a = 0 THEN b ELSE IF b = 0 THEN a
               ELSE Or8[a % 256][b % 256] + 256 * OrInt(a \div 256, b \div 256)

\* a << n for a byte-sized a and n <= 24
Shl(a, n) == IF n = 24 THEN a * 16777216 ELSE IF n = 16 THEN a * 65536 ELSE IF n = 8 THEN a * 256 ELSE a

\* binary.Write(h, binary.BigEndian, counter): the eight bytes of a uint64,
\* most significant first (floor division by 256 is the arithmetic shift)
RECURSIVE ByteAt(_, _)
ByteAt(c, j) == IF j = 0 THEN c % 256 ELSE ByteAt(c \div 256, j - 1)
\* the eight bytes least significant first
CounterBytes_le(counter) == [k \in 1..8 |-> ByteAt(counter, k - 1)]
CounterBytes(counter) == [k \in 1..8 |-> ByteAt(counter, 8 - k)]

\* the decimal digits of n >= 0
RECURSIVE Digits(_)
Digits(n) == IF n < 10 THEN << DigitChars[n + 1] >>
             ELSE Append(Digits(n \div 10), DigitChars[(n % 10) + 1])
\* the format "%d": no padding
Sprintf06d_nopad(v) == (IF v < 0 THEN << "-" >> ELSE << >>) \o Digits(IF v < 0 THEN -v ELSE v)

\* fmt.Sprintf("%06d", v): sign, then zeros up to width 6, then the digits
Sprintf06d(v) ==
    LET d == Digits(IF v < 0 THEN -v ELSE v)
        sign == IF v < 0 THEN << "-" >> ELSE << >>
        zeros == IF Len(sign) + Len(d) < 6 THEN 6 - Len(sign) - Len(d) ELSE 0
    IN sign \o Repeat("0", zeros) \o d

\* the number written by a string of decimal digits, -1 for any other string
RECURSIVE DecimalValue(_)
DecimalValue(s) ==
    IF Len(s) = 0 THEN 0
    ELSE LET last == s[Len(s)]
             rest == DecimalValue(SubSeq(s, 1, Len(s) - 1))
         IN IF rest < 0 \/ ~(\E n \in 1..10 : DigitChars[n] = last) THEN -1
            ELSE 10 * rest + (CHOOSE n \in 1..10 : DigitChars[n] = last) - 1

\* ---------------------------------------------------------------------
\* Inputs
\* ---------------------------------------------------------------------
\* the demonstration secret of main.go and the README
DemoSecret == << "J", "B", "S", "W", "Y", "3", "D", "P", "E", "H", "P", "K", "3", "P", "X", "P" >>
\* the same secret as typed by a user
SpacedSecret == << "j", "b", "s", "w", " ", "y", "3", "d", "p", " ", "e", "h", "p", "k", " ", "3", "p", "x", "p" >>
\* a padded RFC 4648 secret (one key byte)
PaddedSecret == << "M", "Y", "=", "=", "=", "=", "=", "=" >>
\* the padded secret followed by line breaks (pasted text)
NewlineSecret == PaddedSecret \o << "\n", "\n", "\n", "\n", "\n", "\n", "\n", "\n" >>
\* the demonstration secret with a separator
DashedSecret == << "J", "B", "S", "W", "Y", "3", "D", "P", "-", "E", "H", "P", "K", "3", "P", "X", "P" >>
\* not Base32
BadSecret == << "n", "o", "t", "-", "b", "a", "s", "e", "3", "2", "!", "!", "!" >>
\* only a space
BlankSecret == << " " >>
EmptySecret == << >>
Secrets ==
    { DemoSecret, SpacedSecret, PaddedSecret, NewlineSecret, DashedSecret, BadSecret, BlankSecret, EmptySecret }

\* largest tolerance window a caller passes
MaxWindow == 2
WindowSteps == -1..MaxWindow

\* the instants at which the clock is read: Unix time 59 (step 1), and the first
\* and the last second of step 59607044 (in 2026), at which the demonstration
\* secret gives the same code, 034935, as at the next step
ClockInstants == { 59, StepSize * 59607044, (StepSize * 59607044) + 29 }
ClockSteps == { t \div StepSize : t \in ClockInstants }

\* the instants handed to generateTOTP: the clock readings, the start of
\* every step up to MaxWindow + 1 steps away from one of them, and the last
\* second before the Unix epoch (a time.Time holds instants before 1970)
NearSteps == { c + d : c \in ClockSteps, d \in -(MaxWindow + 1)..(MaxWindow + 1) }
Instants == ClockInstants \cup { StepSize * c : c \in NearSteps } \cup { -1 }

\* passcodes that no generateTOTP call handed out
JunkCodes == { << "0", "0", "0", "0", "0", "0" >>, << "1", "2", "3", "4", "5" >> }

\* the width of the machine integer int in the calls that follow the loop of
\* validateTOTP through every value of int (64 in the build: the wrap-around
\* of i++ and of -windowSteps is the same at every width)
IntBits == 4
IntMax == (2 ^ (IntBits - 1)) - 1
IntMin == -(2 ^ (IntBits - 1))
\* the counters that such a loop probes when the clock reads 59
LoopSteps == { (59 \div StepSize) + k : k \in IntMin..IntMax }

\* decodeBase32, with the results for the input secrets computed once
DecodeTable == [s \in Secrets |-> decodeBase32Raw(s)]
decodeBase32(secret) == IF secret \in Secrets THEN DecodeTable[secret] ELSE decodeBase32Raw(secret)

\* ---------------------------------------------------------------------
\* crypto/hmac with crypto/sha1, as used by generateHOTP.  The digests of
\* the keys and counters of the inputs are computed once (HotpTable).
\* ---------------------------------------------------------------------
HmacSHA1(key, msg) == HmacSum(HmacNew(key), msg)

\* ---------------------------------------------------------------------
\* main.go: generateHOTP
\* ---------------------------------------------------------------------
\* the truncation with the mask 0x3F for 0x7F
truncate_mask(h) ==
    LET offset == And8[h[Len(h)]][15]
        value == OrInt(OrInt(OrInt(Shl(AndInt(h[offset + 1], 63), 24),
                                   Shl(And8[h[offset + 2]][255], 16)),
                             Shl(And8[h[offset + 3]][255], 8)),
                       AndInt(h[offset + 4], 255))
    IN [offset |-> offset, value |-> value, mod |-> GoMod(value, 1000000)]

\* the truncation that starts one byte further
truncate_next(h) ==
    LET offset == And8[h[Len(h)]][15] + 1
        value == OrInt(OrInt(OrInt(Shl(AndInt(h[offset], 127), 24),
                                   Shl(And8[h[offset + 1]][255], 16)),
                             Shl(And8[h[offset + 2]][255], 8)),
                       AndInt(h[offset + 3], 255))
    IN [offset |-> offset, value |-> value, mod |-> GoMod(value, 1000000)]

\* lines 39-44: dynamic truncation of the digest
truncate(h) ==
    LET offset == And8[h[Len(h)]][15]
        value == OrInt(OrInt(OrInt(Shl(AndInt(h[offset + 1], 127), 24),
                                   Shl(And8[h[offset + 2]][255], 16)),
                             Shl(And8[h[offset + 3]][255], 8)),
                       AndInt(h[offset + 4], 255))
    IN [offset |-> offset, value |-> value, mod |-> GoMod(value, 1000000)]

\* functions/index.js, lines 46-54: the code made of the digest in JavaScript
\* (Number.toString, String.padStart)
NumberToString(v) == (IF v < 0 THEN << "-" >> ELSE << >>) \o Digits(IF v < 0 THEN -v ELSE v)
PadStart(s, n, c) == (IF Len(s) < n THEN Repeat(c, n - Len(s)) ELSE << >>) \o s
jsCode(hmac) ==
    LET offset == And8[hmac[Len(hmac)]][15]
        binCode == GoMod(OrInt(OrInt(OrInt(Shl(And8[hmac[offset + 1]][127], 24),
                                           Shl(And8[hmac[offset + 2]][255], 16)),
                                     Shl(And8[hmac[offset + 3]][255], 8)),
                               And8[hmac[offset + 4]][255]), 1000000)
    IN PadStart(NumberToString(binCode), 6, "0")

generateHOTPRaw(key, counter) ==
    Sprintf06d(truncate(HmacSHA1(key, CounterBytes(counter))).mod)

\* generateHOTP, with the codes of the input keys and counters computed once
TableKeys == { decodeBase32(s).bytes : s \in { x \in Secrets : ~decodeBase32(x).err } }
TableSteps(key) == IF key = decodeBase32(DemoSecret).bytes THEN NearSteps \cup LoopSteps ELSE NearSteps
HotpTable == [key \in TableKeys |-> [counter \in TableSteps(key) |-> generateHOTPRaw(key, counter)]]
generateHOTP(key, counter) ==
    IF key \in TableKeys /\ counter \in TableSteps(key) THEN HotpTable[key][counter]
    ELSE generateHOTPRaw(key, counter)

\* ---------------------------------------------------------------------
\* main.go: generateTOTP
\* ---------------------------------------------------------------------
\* generateTOTP with the counter rounded to the nearest step
generateTOTP_round(secret, t) ==
    LET d == decodeBase32(secret)
    IN IF d.err THEN [code |-> << >>, err |-> TRUE]
       ELSE [code |-> generateHOTP(d.bytes, GoDiv(t + 15, StepSize)), err |-> FALSE]

generateTOTP(secret, t) ==
    LET d == decodeBase32(secret)
    IN IF d.err THEN [code |-> << >>, err |-> TRUE]
       ELSE [code |-> generateHOTP(d.bytes, GoDiv(t, StepSize)), err |-> FALSE]


\* ---------------------------------------------------------------------
\* The decoders written in JavaScript
\* ---------------------------------------------------------------------
\* alphabet.indexOf(char)
alphabet == encodeStd
indexOf(str, c) == IF \E n \in 1..Len(str) : str[n] = c
                   THEN (CHOOSE n \in 1..Len(str) : str[n] = c) - 1
                   ELSE -1

\* functions/index.js, the loop of base32ToUint8Array: the bytes written to
\* output. Of value only the low bits + 5 <= 12 bits are ever read, so value is
\* kept modulo 2^12.
RECURSIVE base32Loop(_, _, _, _, _)
base32Loop(base32, k, bits, value, written) ==
    IF k > Len(base32) THEN written
    ELSE LET val == indexOf(alphabet, ToUpperChar(base32[k]))
             v == ((value * 32) + val) % 4096
             b == bits + 5
         IN IF val = -1 THEN base32Loop(base32, k + 1, bits, value, written)
            ELSE IF b >= 8
                 THEN base32Loop(base32, k + 1, b - 8, v, Append(written, (v \div Pow2(b - 8)) % 256))
                 ELSE base32Loop(base32, k + 1, b, v, written)

\* base32ToUint8Array: output has (base32.length * 5 / 8) | 0 bytes, zero
\* where the loop wrote nothing
base32ToUint8Array(base32) ==
    LET written == base32Loop(base32, 1, 0, 0, << >>)
    IN [bytes |-> [k \in 1..((Len(base32) * 5) \div 8) |->
                      IF k <= Len(written) THEN written[k] ELSE 0],
        err |-> FALSE]

\* the string without the characters the loop of base32ToUint8Array skips
SkipOutsideAlphabet(base32) == SelectSeq(base32, LAMBDA c : indexOf(alphabet, ToUpperChar(c)) # -1)

\* val.toString(2).padStart(5, '0')
toBits5(val) == [k \in 1..5 |-> (val \div Pow2(5 - k)) % 2]

\* parseInt(bits, 2) of eight binary digits
RECURSIVE parseInt2(_)
parseInt2(bits) == IF bits = << >> THEN 0
                   ELSE (2 * parseInt2(SubSeq(bits, 1, Len(bits) - 1))) + bits[Len(bits)]

\* the browser script, base32ToBuf: the string of bits
RECURSIVE bitString(_)
bitString(s) ==
    IF s = << >> THEN << >>
    ELSE LET val == indexOf(alphabet, Head(s))
         IN (IF val = -1 THEN << >> ELSE toBits5(val)) \o bitString(Tail(s))

\* base32ToBuf: Math.floor(bits.length / 8) bytes
base32ToBuf(s0) ==
    LET bits == bitString(RemoveAll(ToUpper(s0), " "))
    IN [bytes |-> [k \in 1..(Len(bits) \div 8) |-> parseInt2(SubSeq(bits, ((k - 1) * 8) + 1, k * 8))],
        err |-> FALSE]
\* ---------------------------------------------------------------------
\* Values of the variables before anything has run
\* ---------------------------------------------------------------------
\* no digest made of a key yet (no byte is -1)
NoInput == [key |-> << -1 >>, counter |-> 0]

\* no response yet
NoReply == [status |-> 0, type |-> "", error |-> "", totp |-> << >>, valid |-> FALSE]
NoRequest ==
    [host |-> "", path |-> "", secret |-> << >>, code |-> << >>, window |-> << >>,
     format |-> "", accept |-> ""]
NoExchange == [req |-> NoRequest, go |-> NoReply, cf |-> NoReply, tmpl |-> NoReply, val |-> NoReply]

\* no secret handed to the decoders yet
NoOutcome == [bytes |-> << >>, err |-> FALSE]
NoDec == [phase |-> "none", secret |-> << >>, variant |-> << >>, edits |-> 0,
          go |-> NoOutcome, goVariant |-> NoOutcome, cf |-> NoOutcome, cfStripped |-> NoOutcome,
          browser |-> NoOutcome]

\* no counter serialized yet
NoSer == [phase |-> "none", counter |-> << >>, go |-> << >>, cf |-> << >>, browser |-> << >>]
\* the page not opened yet
NoApp == [phase |-> "none", accounts |-> << >>, activeAccountId |-> 0, secretInput |-> << >>,
          totpCode |-> << >>, refreshTimer |-> FALSE, pending |-> << >>]
\* ---------------------------------------------------------------------
\* The core called with arbitrary arguments
\* ---------------------------------------------------------------------
NoCall == [fn |-> "none", secret |-> << >>, passcode |-> << >>, windowSteps |-> 0, t |-> 0]
NoRet == [code |-> << >>, err |-> FALSE, valid |-> FALSE]
NoGen == [secret |-> << >>, t |-> 0, counter |-> 0, code |-> << >>]
Dashes == << "-", "-", "-", "-", "-", "-" >>
ZeroDigest == [k \in 1..20 |-> 0]
NoOut == [offset |-> -1, value |-> -1, mod |-> -1, code |-> << >>, jsCode |-> << >>]

\* the goroutines that serve requests, and the frame of one that runs no call
Goroutines == { 1, 2 }
NoFrame == [pc |-> "idle", fn |-> "none", secret |-> << >>, passcode |-> << >>, windowSteps |-> 0,
            t |-> 0, secretBytes |-> << >>, err |-> FALSE, counter |-> 0, i |-> 0, ret |-> NoRet]
NoCalls == [g \in Goroutines |-> NoFrame]

Init ==
    /\ now = 59
    /\ pc = "idle"
    /\ call = NoCall
    /\ secretBytes = << >>
    /\ err = FALSE
    /\ currentCounter = 0
    /\ i = 0
    /\ probes = 0
    /\ probed = 0
    /\ ret = NoRet
    /\ gen = NoGen
    /\ sum = ZeroDigest
    /\ hotp = NoOut
    /\ page = "none"
    /\ secretInput = << >>
    /\ totpCode = Dashes
    /\ timerText = 30
    /\ statusBadge = "hidden"
    /\ refreshTimer = FALSE
    /\ inflight = << >>
    /\ sent = {}
    /\ hashed = NoInput
    /\ exchange = NoExchange
    /\ dec = NoDec
    /\ calls = NoCalls
    /\ ser = NoSer
    /\ app = NoApp

\* the clock moves forward
Tick ==
    /\ \E t \in ClockInstants : t > now /\ now' = t
    /\ UNCHANGED << pc, call, secretBytes, err, currentCounter, i, probes, probed, ret, gen, hotpVars, uiVars, auxVars >>

\* generateTOTP(secret, t), lines 48-55
ReturnGenerateTOTP(secret, t, r) ==
    /\ ret' = [code |-> r.code, err |-> r.err, valid |-> FALSE]
    /\ err' = r.err
    /\ probes' = IF r.err THEN 0 ELSE 1
    /\ gen' = IF r.err THEN gen
              ELSE [secret |-> secret, t |-> t, counter |-> GoDiv(t, StepSize), code |-> r.code]

CallGenerateTOTP(secret, t) ==
    /\ pc = "idle"
    /\ ReturnGenerateTOTP(secret, t, generateTOTP(secret, t))
    /\ call' = [fn |-> "generateTOTP", secret |-> secret, passcode |-> << >>, windowSteps |-> 0, t |-> t]
    /\ pc' = "done"
    /\ UNCHANGED << now, secretBytes, currentCounter, i, probed, hotpVars, uiVars, auxVars >>

\* line 63: the first value of the loop variable
loopStart_late(windowSteps) == -windowSteps + 1
loopStart_zero(windowSteps) == 0
loopStart(windowSteps) == -windowSteps

\* line 63: the loop condition
loopCond_strict(iv, windowSteps) == iv < windowSteps
loopCond_wide(iv, windowSteps) == iv <= windowSteps + 1
loopCond_abs(iv, windowSteps) == iv <= (IF windowSteps < 0 THEN -windowSteps ELSE windowSteps)
loopCond(iv, windowSteps) == iv <= windowSteps

\* line 64: uint64(currentCounter + int64(i)); the sum is made on int64 and
\* the conversion keeps its bits
probeCounter_narrow(c, iv) == c + (iv % 65536)
probeCounter(c, iv) == c + iv

\* validateTOTP entered without the check of the decoder's error
CallValidateTOTP_noerr(passcode, secret, windowSteps) ==
    /\ pc = "idle"
    /\ call' = [fn |-> "validateTOTP", secret |-> secret, passcode |-> passcode,
                windowSteps |-> windowSteps, t |-> now]
    /\ err' = FALSE
    /\ secretBytes' = decodeBase32(secret).bytes
    /\ currentCounter' = GoDiv(now, StepSize)
    /\ i' = loopStart(windowSteps)
    /\ pc' = "loop"
    /\ UNCHANGED << now, probes, probed, gen, ret, hotpVars, uiVars, auxVars >>

\* validateTOTP(passcode, secret, windowSteps), lines 57-63: decode, read the clock, enter the loop
CallValidateTOTP(passcode, secret, windowSteps) ==
    /\ pc = "idle"
    /\ call' = [fn |-> "validateTOTP", secret |-> secret, passcode |-> passcode,
                windowSteps |-> windowSteps, t |-> now]
    /\ LET d == decodeBase32(secret)
       IN IF d.err
          THEN /\ err' = TRUE
               /\ ret' = [code |-> << >>, err |-> FALSE, valid |-> FALSE]
               /\ pc' = "done"
               /\ UNCHANGED << secretBytes, currentCounter, i >>
          ELSE /\ err' = FALSE
               /\ secretBytes' = d.bytes
               /\ currentCounter' = GoDiv(now, StepSize)
               /\ i' = loopStart(windowSteps)
               /\ pc' = "loop"
               /\ UNCHANGED ret
    /\ UNCHANGED << now, probes, probed, gen, hotpVars, uiVars, auxVars >>

\* validateTOTP, lines 63-69: one iteration of the loop, or its exit
LoopValidateTOTP ==
    /\ pc = "loop"
    /\ IF loopCond(i, call.windowSteps)
       THEN /\ probes' = probes + 1
            /\ probed' = probeCounter(currentCounter, i)
            /\ IF generateHOTP(secretBytes, probeCounter(currentCounter, i)) = call.passcode
               THEN /\ ret' = [code |-> << >>, err |-> FALSE, valid |-> TRUE]
                    /\ pc' = "done"
                    /\ UNCHANGED i
               ELSE /\ i' = i + 1
                    /\ UNCHANGED << ret, pc >>
       ELSE /\ ret' = [code |-> << >>, err |-> FALSE, valid |-> FALSE]
            /\ pc' = "done"
            /\ UNCHANGED << i, probes, probed >>
    /\ UNCHANGED << now, call, secretBytes, err, currentCounter, gen, hotpVars, uiVars, auxVars >>

\* the caller takes the result
Return ==
    /\ pc = "done"
    /\ pc' = "idle"
    /\ call' = NoCall
    /\ secretBytes' = << >>
    /\ err' = FALSE
    /\ currentCounter' = 0
    /\ i' = 0
    /\ probes' = 0
    /\ probed' = 0
    /\ ret' = NoRet
    /\ UNCHANGED << now, gen, hotpVars, uiVars, auxVars >>

Passcodes == JunkCodes \cup (IF gen = NoGen THEN {} ELSE { gen.code })

Next ==
    \/ Tick
    \/ \E secret \in Secrets, t \in Instants : CallGenerateTOTP(secret, t)
    \/ \E passcode \in Passcodes, secret \in Secrets, windowSteps \in WindowSteps :
          CallValidateTOTP(passcode, secret, windowSteps)
    \/ LoopValidateTOTP
    \/ Return

Spec == Init /\ [][Next]_vars

\* ---------------------------------------------------------------------
\* Properties of validateTOTP and generateTOTP
\* ---------------------------------------------------------------------
ValidateDone == pc = "done" /\ call.fn = "validateTOTP"
GenerateDone == pc = "done" /\ call.fn = "generateTOTP"
Abs(x) == IF x < 0 THEN -x ELSE x

\* the passcode is the code generateTOTP handed out for the secret of the call
PasscodeFromGen == gen # NoGen /\ call.secret = gen.secret /\ call.passcode = gen.code

\* C1: for a decodable secret and windowSteps w >= 0, validateTOTP returns
\* true exactly when the passcode equals hotp(key, c + k) for some k in
\* -w..w, with c = floor(now / 30) at the time of the call.
C1_WindowMembership ==
    (ValidateDone /\ ~decodeBase32(call.secret).err /\ call.windowSteps >= 0) =>
        /\ currentCounter = call.t \div StepSize
        /\ ret.valid <=> \E k \in -call.windowSteps..call.windowSteps :
                            generateHOTP(decodeBase32(call.secret).bytes, (call.t \div StepSize) + k) = call.passcode

\* a call with a window of at least one step accepted the passcode at the last probe
C1_Witness ==
    /\ ValidateDone /\ ret.valid /\ call.windowSteps >= 1
    /\ i = call.windowSteps

\* C2: the code of generateTOTP(S, T) is accepted by validateTOTP with
\* windowSteps = 0 when the clock reads the same instant T.
C2_RoundTrip ==
    (ValidateDone /\ PasscodeFromGen /\ call.t = gen.t /\ call.windowSteps = 0) => ret.valid

\* a code generated in the middle of a step was validated at the same instant
C2_Witness ==
    /\ ValidateDone /\ PasscodeFromGen /\ call.t = gen.t /\ call.windowSteps = 0
    /\ call.t % StepSize # 0
    /\ ret.valid

\* C3: a code generated for the step exactly w steps before or after the
\* validator's current step is accepted with windowSteps = w.
C3_InsideWindow ==
    (/\ ValidateDone /\ PasscodeFromGen /\ call.windowSteps >= 0
     /\ Abs(gen.counter - (call.t \div StepSize)) = call.windowSteps) => ret.valid

\* a code of the step w >= 1 steps before the current one was accepted
C3_Witness ==
    /\ ValidateDone /\ PasscodeFromGen /\ call.windowSteps >= 1
    /\ gen.counter = (call.t \div StepSize) - call.windowSteps
    /\ ret.valid

\* C4 as stated: a code generated for a step w + 1 steps away from the
\* validator's current step is rejected.
C4_OutsideWindowRejected ==
    (/\ ValidateDone /\ PasscodeFromGen /\ call.windowSteps >= 0
     /\ Abs(gen.counter - (call.t \div StepSize)) = call.windowSteps + 1) => ~ret.valid

\* the codes of the steps inside the window of the call
WindowCodes ==
    { generateHOTP(decodeBase32(call.secret).bytes, (call.t \div StepSize) + k) :
        k \in -call.windowSteps..call.windowSteps }

\* C4 amended: a code generated for a step w + 1 steps away is rejected
\* unless it is also the code of one of the 2w + 1 steps inside the window.
C4_OutsideWindow ==
    (/\ ValidateDone /\ PasscodeFromGen /\ call.windowSteps >= 0
     /\ Abs(gen.counter - (call.t \div StepSize)) = call.windowSteps + 1
     /\ call.passcode \notin WindowCodes) => ~ret.valid

\* a code of the step w + 1 steps after the current one was rejected
C4_Witness ==
    /\ ValidateDone /\ PasscodeFromGen /\ call.windowSteps >= 0
    /\ gen.counter = (call.t \div StepSize) + call.windowSteps + 1
    /\ call.passcode \notin WindowCodes
    /\ ~ret.valid

\* C5: for a secret that does not decode, validateTOTP returns false and
\* evaluates no HOTP code.
C5_MalformedSecret ==
    (call.fn = "validateTOTP" /\ decodeBase32(call.secret).err) =>
        /\ pc = "done"
        /\ ~ret.valid
        /\ probes = 0

\* a call with a malformed secret and a window of at least one step returned
C5_Witness ==
    /\ ValidateDone /\ decodeBase32(call.secret).err /\ call.windowSteps >= 1
    /\ ~ret.valid

\* C6 as stated: generateTOTP fails for a secret that is empty after
\* normalization (the effective key has no bytes) and returns no code.
C6_EmptySecretFails ==
    (GenerateDone /\ ToUpper(RemoveAll(call.secret, " ")) = << >>) =>
        ret.err /\ ret.code = << >>

\* the secret, uppercased and without spaces, has a character outside A-Z, 2-7
HasOutsideAlphabet(s) == \E k \in 1..Len(ToUpper(RemoveAll(s, " "))) : decodeMap(ToUpper(RemoveAll(s, " "))[k]) = 255
\* the secret has a padding character or a line break
HasPadOrNewline(s) == \E k \in 1..Len(s) : s[k] \in { "=", "\r", "\n" }

\* C7 as stated: generateTOTP fails for every secret that, uppercased and
\* without spaces, still has a character outside A-Z, 2-7.
C7_BadSymbolFails ==
    (GenerateDone /\ HasOutsideAlphabet(call.secret)) => ret.err /\ ret.code = << >>

\* C7 amended: generateTOTP fails for every secret without "=", CR and LF
\* that, uppercased and without spaces, still has a character outside A-Z, 2-7.
C7_BadSymbolFailsUnpadded ==
    (GenerateDone /\ HasOutsideAlphabet(call.secret) /\ ~HasPadOrNewline(call.secret)) =>
        ret.err /\ ret.code = << >>

\* generateTOTP returned an error for a secret with a separator in it
C7_Witness ==
    /\ GenerateDone /\ call.secret = DashedSecret
    /\ ret.err


\* ---------------------------------------------------------------------
\* The counter of generateTOTP
\* ---------------------------------------------------------------------
\* C12: for every instant t, generateTOTP uses the counter floor(t.Unix() / 30)
\* converted to uint64. A uint64 is held here as the int64 with the same bits,
\* so the conversion keeps the number and the floor is compared as it stands.
C12_FloorCounter ==
    gen # NoGen => gen.counter = gen.t \div StepSize


\* ---------------------------------------------------------------------
\* The probes of validateTOTP
\* ---------------------------------------------------------------------
\* C21: whenever the current counter c satisfies c >= windowSteps >= 0, the
\* probe of every i in -windowSteps..windowSteps uses exactly the counter
\* c + i: the uint64 is not negative as an int64, its top bit is clear, and
\* it is the sum.
C21_ProbeCounter ==
    [][(pc = "loop" /\ probes' = probes + 1
        /\ currentCounter >= call.windowSteps /\ call.windowSteps >= 0) =>
           /\ i \in -call.windowSteps..call.windowSteps
           /\ probed' = currentCounter + i
           /\ probed' >= 0
           /\ CounterBytes(probed')[1] < 128]_vars

\* the first probe of a window of MaxWindow steps was made below the current counter
C21_Witness ==
    /\ pc = "loop" /\ probes = 1
    /\ call.windowSteps = MaxWindow /\ currentCounter >= call.windowSteps
    /\ probed = currentCounter - MaxWindow

\* C25: validateTOTP probes in increasing order of i from -windowSteps and
\* returns at the first match: it evaluates at most 2 * windowSteps + 1
\* codes; when the first matching offset is i0 it evaluates exactly
\* i0 + windowSteps + 1 codes, and all of them when none matches.
C25_ProbeOrder ==
    (ValidateDone /\ ~err /\ call.windowSteps >= 0) =>
        /\ probes <= (2 * call.windowSteps) + 1
        /\ ret.valid =>
              /\ generateHOTP(secretBytes, currentCounter + i) = call.passcode
              /\ \A k \in -call.windowSteps..(i - 1) :
                    generateHOTP(secretBytes, currentCounter + k) # call.passcode
              /\ probes = i + call.windowSteps + 1
        /\ ~ret.valid => probes = (2 * call.windowSteps) + 1

\* a code was accepted at the last offset but one of the widest window,
\* after every earlier offset was probed
C25_Witness ==
    /\ ValidateDone /\ ret.valid /\ call.windowSteps = MaxWindow
    /\ i = MaxWindow - 1 /\ probes = 2 * MaxWindow

WrapInt(x) == ((x - IntMin) % (2 ^ IntBits)) + IntMin

LoopPasscodes == JunkCodes \cup { generateHOTP(decodeBase32(DemoSecret).bytes, 59 \div StepSize) }

InitLoop == Init

\* validateTOTP(passcode, DemoSecret, windowSteps), lines 57-63: decode, read
\* the clock, i := -windowSteps
CallValidateInt(passcode, windowSteps) ==
    /\ pc = "idle"
    /\ call' = [fn |-> "validateTOTP", secret |-> DemoSecret, passcode |-> passcode,
                windowSteps |-> windowSteps, t |-> now]
    /\ err' = FALSE
    /\ secretBytes' = decodeBase32(DemoSecret).bytes
    /\ currentCounter' = GoDiv(now, StepSize)
    /\ i' = WrapInt(loopStart(windowSteps))
    /\ pc' = "loop"
    /\ UNCHANGED << now, probes, probed, gen, ret, hotpVars, uiVars, auxVars >>

\* lines 63-69: one iteration of the loop with i++ on int, or its exit.
\* The iterations are not counted here: the loop may run without end.
LoopInt ==
    /\ pc = "loop"
    /\ IF loopCond(i, call.windowSteps)
       THEN /\ probed' = probeCounter(currentCounter, i)
            /\ IF generateHOTP(secretBytes, probeCounter(currentCounter, i)) = call.passcode
               THEN /\ ret' = [code |-> << >>, err |-> FALSE, valid |-> TRUE]
                    /\ pc' = "done"
                    /\ UNCHANGED i
               ELSE /\ i' = WrapInt(i + 1)
                    /\ UNCHANGED << ret, pc >>
       ELSE /\ ret' = [code |-> << >>, err |-> FALSE, valid |-> FALSE]
            /\ pc' = "done"
            /\ UNCHANGED << i, probed >>
    /\ UNCHANGED << now, call, secretBytes, err, currentCounter, probes, gen, hotpVars, uiVars, auxVars >>

NextLoop ==
    \/ \E passcode \in LoopPasscodes, windowSteps \in IntMin..IntMax : CallValidateInt(passcode, windowSteps)
    \/ LoopInt
    \/ Return

\* a goroutine that is inside the loop keeps running
SpecLoop == InitLoop /\ [][NextLoop]_vars /\ WF_vars(LoopInt)

\* C27: for every value of the int windowSteps, the largest and the smallest
\* included, the loop of validateTOTP reaches its exit and the call returns.
C27_Terminates == (pc = "loop") ~> (pc = "done")

\* ---------------------------------------------------------------------
\* The eight bytes made of a counter.  A counter here is any number below
\* 2^64, written as four 16-bit limbs, the most significant first.
\* ---------------------------------------------------------------------
\* the limbs of a number below 2^31
Limbs(n) == << 0, 0, n \div 65536, n % 65536 >>

\* main.go line 37: binary.Write(h, binary.BigEndian, counter)
PutUint64(c) == << c[1] \div 256, c[1] % 256, c[2] \div 256, c[2] % 256,
                   c[3] \div 256, c[3] % 256, c[4] \div 256, c[4] % 256 >>

\* JavaScript: Math.floor(x / 256) of a Number x
FloorDiv256(c) == << c[1] \div 256,
                     ((c[1] % 256) * 256) + (c[2] \div 256),
                     ((c[2] % 256) * 256) + (c[3] \div 256),
                     ((c[3] % 256) * 256) + (c[4] \div 256) >>

\* JavaScript: ToInt32(x) of a Number x, the operand of & and >>
ToInt32(c) == IF c[3] >= 32768 THEN ((c[3] - 65536) * 65536) + c[4]
              ELSE (c[3] * 65536) + c[4]

\* functions/index.js lines 28-33 and ValidateJS lines 900-905: the loop
\* counterBytes[i] = tempCounter & 0xff; tempCounter = Math.floor(tempCounter / 256)
\* with n bytes left to write
RECURSIVE counterBytesFloor(_, _)
counterBytesFloor(tempCounter, n) ==
    IF n = 0 THEN << >>
    ELSE Append(counterBytesFloor(FloorDiv256(tempCounter), n - 1), ToInt32(tempCounter) % 256)

\* the browser script lines 99-104: msg[i] = tempCounter & 0xff;
\* tempCounter = tempCounter >> 8.  After the first >> tempCounter is an int32.
RECURSIVE counterBytesShift(_, _)
counterBytesShift(temp32, n) ==
    IF n = 0 THEN << >>
    ELSE Append(counterBytesShift(temp32 \div 256, n - 1), temp32 % 256)
counterBytesBrowser(c) == Append(counterBytesShift(ToInt32(c) \div 256, 7), ToInt32(c) % 256)

\* counters up to 2^53 - 1, around the limits of int32 and uint32
SerCounters ==
    { << a, b, c, d >> : a \in { 0, 31 }, b \in { 0, 1, 65535 },
                         c \in { 0, 1, 32767, 32768, 65535 }, d \in { 0, 1, 255, 256, 65535 } }
    \cup { Limbs(n) : n \in NearSteps \cap Nat }

InitSer == Init

\* every variant serializes the counter c
Serialize(c) ==
    /\ ser' = [phase |-> "done", counter |-> c,
               go |-> PutUint64(c),
               cf |-> counterBytesFloor(c, 8),
               browser |-> counterBytesBrowser(c)]
    /\ UNCHANGED << coreVars, hotpVars, uiVars, dec, calls, app >>

NextSer == \E c \in SerCounters : Serialize(c)

SpecSer == InitSer /\ [][NextSer]_vars

\* C22: for every counter c with 0 <= c < 2^53, the loop of the Cloudflare
\* functions and the loop of the browser script build the eight bytes that
\* Go writes for c, most significant byte first.
C22_SameBytes ==
    ser.phase = "done" =>
        /\ ser.cf = ser.go
        /\ ser.browser = ser.go
\* ---------------------------------------------------------------------
\* generateHOTP step by step, on the digests of the input keys and counters
\* and on arbitrary 20-byte digests
\* ---------------------------------------------------------------------
\* digests with every offset, both values of the unused high nibble of the
\* last byte, and four fillings of the other bytes
Fill(kind, k) == IF kind = 0 THEN 0
                 ELSE IF kind = 1 THEN 255
                 ELSE IF kind = 2 THEN (k * 13) % 256
                 ELSE 255 - ((k * 13) % 256)
SomeDigests ==
    { [k \in 1..20 |-> IF k = 20 THEN 16 * hi + lo ELSE Fill(kind, k)] :
        lo \in 0..15, hi \in {0, 15}, kind \in 0..3 }

InitHOTP ==
    /\ sum = ZeroDigest
    /\ hotp = NoOut
    /\ now = 59
    /\ pc = "idle"
    /\ call = NoCall
    /\ secretBytes = << >>
    /\ err = FALSE
    /\ currentCounter = 0
    /\ i = 0
    /\ probes = 0
    /\ probed = 0
    /\ ret = NoRet
    /\ gen = NoGen
    /\ page = "none"
    /\ secretInput = << >>
    /\ totpCode = Dashes
    /\ timerText = 30
    /\ statusBadge = "hidden"
    /\ refreshTimer = FALSE
    /\ inflight = << >>
    /\ sent = {}
    /\ exchange = NoExchange
    /\ dec = NoDec
    /\ calls = NoCalls
    /\ ser = NoSer
    /\ app = NoApp
    /\ hashed = NoInput

\* generateHOTP, lines 36-38: the digest of the counter under the key
HashCounter(key, counter) ==
    /\ sum = ZeroDigest
    /\ sum' = HmacSHA1(key, CounterBytes(counter))
    /\ hotp' = NoOut
    /\ hashed' = [key |-> key, counter |-> counter]
    /\ UNCHANGED << coreVars, uiVars, auxVars >>

\* any other digest
PickDigest(d) ==
    /\ sum = ZeroDigest
    /\ sum' = d
    /\ hotp' = NoOut
    /\ hashed' = NoInput
    /\ UNCHANGED << coreVars, uiVars, auxVars >>

\* generateHOTP, lines 39-45, and functions/index.js, lines 46-54, on the same digest
Truncate ==
    /\ hotp = NoOut
    /\ LET r == truncate(sum)
       IN hotp' = [offset |-> r.offset, value |-> r.value, mod |-> r.mod,
                  code |-> Sprintf06d(r.mod), jsCode |-> jsCode(sum)]
    /\ UNCHANGED << sum, hashed, coreVars, uiVars, auxVars >>

\* the secrets of the RFC 4226 test: the Base32 text of "1234567890" and of
\* "12345678901234567890", and the counters of Appendix D
RfcSecret16 == << "G", "E", "Z", "D", "G", "N", "B", "V", "G", "Y", "3", "T", "Q", "O", "J", "Q" >>
RfcSecret32 == RfcSecret16 \o RfcSecret16
RfcKeys == { decodeBase32Raw(RfcSecret16).bytes, decodeBase32Raw(RfcSecret32).bytes }
RfcCounters == 0..8

NextHOTP ==
    \/ \E key \in TableKeys, counter \in NearSteps : HashCounter(key, counter)
    \/ \E key \in RfcKeys, counter \in RfcCounters : HashCounter(key, counter)
    \/ \E d \in SomeDigests : PickDigest(d)
    \/ Truncate

SpecHOTP == InitHOTP /\ [][NextHOTP]_vars

IsCode(s) == Len(s) = 6 /\ \A k \in 1..Len(s) : \E n \in 1..10 : DigitChars[n] = s[k]

\* the RFC 4226 value of a digest: the 31 bits at the offset
RfcOffset(d) == d[20] % 16
RfcValue(d) == (d[RfcOffset(d) + 1] % 128) * 16777216 + d[RfcOffset(d) + 2] * 65536
               + d[RfcOffset(d) + 3] * 256 + d[RfcOffset(d) + 4]

\* C9: the generated code is exactly six ASCII digits: the decimal value of
\* the truncation mod 1000000, left-padded with zeros, in main.go and in
\* functions/index.js.
C9_CodeFormat ==
    hotp # NoOut =>
        /\ IsCode(hotp.code) /\ DecimalValue(hotp.code) = RfcValue(sum) % 1000000
        /\ IsCode(hotp.jsCode) /\ DecimalValue(hotp.jsCode) = RfcValue(sum) % 1000000

\* the code of an HMAC digest of the demonstration secret starts with a zero
C9_Witness ==
    /\ hotp # NoOut /\ hotp.mod < 100000 /\ hotp.code[1] = "0"
    /\ \E counter \in NearSteps : sum = HmacSHA1(decodeBase32(DemoSecret).bytes, CounterBytes(counter))

\* C10: generateHOTP takes offset = d[19] & 0x0F and the 31-bit value at
\* the offset, which is in 0..2^31-1, and returns that value mod 1000000.
C10_Truncation ==
    hotp # NoOut =>
        /\ hotp.offset = RfcOffset(sum)
        /\ hotp.value = RfcValue(sum)
        /\ hotp.value >= 0 /\ hotp.value <= 2147483647
        /\ hotp.mod = RfcValue(sum) % 1000000
        /\ DecimalValue(hotp.code) = hotp.mod

\* a digest with offset 15 and the top bit of the first byte set was truncated
C10_Witness ==
    /\ hotp # NoOut /\ hotp.offset = 15 /\ sum[16] >= 128
    /\ hotp.value = RfcValue(sum)


\* RFC 4226, Appendix D: the codes of the counters 0..8
RfcCodes ==
    << << "7", "5", "5", "2", "2", "4" >>, << "2", "8", "7", "0", "8", "2" >>,
       << "3", "5", "9", "1", "5", "2" >>, << "9", "6", "9", "4", "2", "9" >>,
       << "3", "3", "8", "3", "1", "4" >>, << "2", "5", "4", "6", "7", "6" >>,
       << "2", "8", "7", "9", "2", "2" >>, << "1", "6", "2", "5", "8", "3" >>,
       << "3", "9", "9", "8", "7", "1" >> >>
\* the ASCII bytes of "1234567890"
AsciiDigits == << 49, 50, 51, 52, 53, 54, 55, 56, 57, 48 >>
HashedRfc(secret) ==
    /\ hotp # NoOut /\ hashed # NoInput
    /\ hashed.key = decodeBase32Raw(secret).bytes
    /\ hashed.counter \in RfcCounters

\* C11 as stated: the key decoded from GEZDGNBVGY3TQOJQ is the ASCII text
\* "12345678901234567890" and gives the codes of RFC 4226 for counters 0..8.
C11_RfcVectors16 ==
    HashedRfc(RfcSecret16) =>
        /\ hashed.key = AsciiDigits \o AsciiDigits
        /\ hotp.code = RfcCodes[hashed.counter + 1]

\* C11 amended: the key decoded from GEZDGNBVGY3TQOJQGEZDGNBVGY3TQOJQ is the
\* ASCII text "12345678901234567890" and gives the codes of RFC 4226,
\* Appendix D, for counters 0..8.
C11_RfcVectors ==
    HashedRfc(RfcSecret32) =>
        /\ ~decodeBase32Raw(RfcSecret32).err
        /\ hashed.key = AsciiDigits \o AsciiDigits
        /\ hotp.code = RfcCodes[hashed.counter + 1]

\* the code of counter 8 under the 20-byte key was made
C11_Witness ==
    /\ HashedRfc(RfcSecret32) /\ hashed.counter = 8
    /\ hotp.code = RfcCodes[9]

\* C20: the offset is in 0..15 and the four bytes read at offset..offset+3
\* (counted from 0) are at indices 0..18 of the 20-byte digest.
C20_ReadsInsideDigest ==
    hotp # NoOut =>
        /\ Len(sum) = 20
        /\ hotp.offset \in 0..15
        /\ \A k \in 0..3 : hotp.offset + k \in 0..18 /\ hotp.offset + k + 1 \in DOMAIN sum

\* a digest whose last nibble is 15 was truncated: index 18 was read
C20_Witness ==
    /\ hotp # NoOut /\ Len(sum) = 20
    /\ sum[20] % 16 = 15 /\ hotp.offset + 3 = 18
\* ---------------------------------------------------------------------
\* main.go: validateTOTP as one call (the handlers call it and wait)
\* ---------------------------------------------------------------------
RECURSIVE validateLoop(_, _, _, _, _)
validateLoop(key, counter0, passcode, iv, windowSteps) ==
    IF ~loopCond(iv, windowSteps) THEN FALSE
    ELSE IF generateHOTP(key, counter0 + iv) = passcode THEN TRUE
    ELSE validateLoop(key, counter0, passcode, iv + 1, windowSteps)

validateTOTP(passcode, secret, windowSteps, t) ==
    LET d == decodeBase32(secret)
    IN IF d.err THEN FALSE
       ELSE validateLoop(d.bytes, GoDiv(t, StepSize), passcode, loopStart(windowSteps), windowSteps)

\* ---------------------------------------------------------------------
\* main.go: the HTTP handlers.  A request carries the decoded values of its
\* query parameters and its Accept header; t is time.Now().Unix().
\* ---------------------------------------------------------------------
AcceptJSON == "application/json"

\* strconv.Atoi on the window parameter: digits with an optional sign
Atoi(s) ==
    LET neg == Len(s) > 0 /\ s[1] = "-"
        plus == Len(s) > 0 /\ s[1] = "+"
        body == IF neg \/ plus THEN Tail(s) ELSE s
        v == IF Len(body) = 0 THEN -1 ELSE DecimalValue(body)
    IN IF v < 0 THEN [n |-> 0, err |-> TRUE]
       ELSE [n |-> IF neg THEN -v ELSE v, err |-> FALSE]

\* handleUI, lines 74-95 (the Accept header contains "application/json"
\* exactly when it is AcceptJSON)
totpResponse_ok(r) ==
    [status |-> 200, type |-> "application/json", error |-> "", totp |-> r.code, valid |-> FALSE]
totpResponse(r) ==
    IF r.err
    THEN [status |-> 400, type |-> "application/json", error |-> "invalid secret",
          totp |-> << >>, valid |-> FALSE]
    ELSE [status |-> 200, type |-> "application/json", error |-> "", totp |-> r.code, valid |-> FALSE]

handleUI(req, t) ==
    LET isJSON == req.accept = AcceptJSON \/ req.format = "json"
    IN IF req.secret # << >> /\ isJSON
       THEN totpResponse(generateTOTP(req.secret, t))
       ELSE [status |-> 200, type |-> "text/html", error |-> "", totp |-> << >>, valid |-> FALSE]

\* handleValidate, lines 97-124
handleValidate_strict(req, t) ==
    IF req.secret = << >> \/ req.code = << >> \/ decodeBase32(req.secret).err
    THEN [status |-> 400, type |-> "application/json", error |-> "missing secret or code",
          totp |-> << >>, valid |-> FALSE]
    ELSE [status |-> 200, type |-> "application/json", error |-> "", totp |-> << >>,
          valid |-> validateTOTP(req.code, req.secret, 1, t)]
handleValidate(req, t) ==
    LET a == Atoi(req.window)
        windowSteps == IF req.window # << >> /\ ~a.err THEN a.n ELSE 1
    IN IF req.secret = << >> \/ req.code = << >>
       THEN IF req.accept # AcceptJSON
            THEN [status |-> 302, type |-> "", error |-> "", totp |-> << >>, valid |-> FALSE]
            ELSE [status |-> 400, type |-> "application/json", error |-> "missing secret or code",
                  totp |-> << >>, valid |-> FALSE]
       ELSE [status |-> 200, type |-> "application/json", error |-> "", totp |-> << >>,
             valid |-> validateTOTP(req.code, req.secret, windowSteps, t)]

\* the routes of main, lines 186-187
serve(req, t) == IF req.path = "/validate" THEN handleValidate(req, t) ELSE handleUI(req, t)

\* ---------------------------------------------------------------------
\* main.go: the script of IndexHTML, lines 714-797, in a browser talking to
\* the server
\* ---------------------------------------------------------------------
\* String.prototype.trim, for the space character
RECURSIVE TrimLeft(_)
TrimLeft(s) == IF Len(s) > 0 /\ s[1] = " " THEN TrimLeft(Tail(s)) ELSE s
RECURSIVE TrimRight(_)
TrimRight(s) == IF Len(s) > 0 /\ s[Len(s)] = " " THEN TrimRight(SubSeq(s, 1, Len(s) - 1)) ELSE s
Trim(s) == TrimRight(TrimLeft(s))

\* the seconds after the page is opened during which the browser is followed
MaxUiTicks == 2
\* the requests that can wait for the server or for their continuation at once
MaxInflight == 2

\* the page is opened one second before a step begins
UiStart == (2 * StepSize) - 1
UrlSecrets == { DemoSecret, BadSecret, EmptySecret }
TypedCodes == { << "0", "0", "0", "0", "0", "0" >>, << >> }
TypedWindows == { << "0" >>, << >> }

\* fetch("/?secret=" + encodeURIComponent(secret) + "&format=json", {headers: {Accept: ...}})
TotpRequest(secret) ==
    [host |-> "origin", path |-> "/", secret |-> secret, code |-> << >>, window |-> << >>,
     format |-> "json", accept |-> AcceptJSON]

\* fetch("/validate?secret=...&code=...&window=...&format=json", ...)
ValidateRequest(secret, code, window) ==
    [host |-> "origin", path |-> "/validate", secret |-> secret, code |-> code, window |-> window,
     format |-> "json", accept |-> AcceptJSON]

\* fetch('https://api.github.com/repos/richmondgoh8/totp-viewer'), line 791
StarsRequest ==
    [host |-> "api.github.com", path |-> "/repos/richmondgoh8/totp-viewer", secret |-> << >>,
     code |-> << >>, window |-> << >>, format |-> "", accept |-> ""]


\* fetchTotp, lines 725-731: the requests it adds to those in flight
fetchTotp(secretValue) ==
    IF Trim(secretValue) = << >> THEN << >>
    ELSE << [req |-> TotpRequest(Trim(secretValue)), reply |-> NoReply] >>

\* updateProgress, lines 715-723: the remaining seconds and the fetch at second 0
Seconds(t) == (t % 60) % 30
updateProgress(secretValue, t) == IF Seconds(t) = 0 THEN fetchTotp(secretValue) ELSE << >>

\* what the log keeps of each issued request: where it went and the secret in its URL
Requests(fl) ==
    { [host |-> fl[k].req.host, path |-> fl[k].req.path, secret |-> fl[k].req.secret] : k \in 1..Len(fl) }

InitUI ==
    /\ now = UiStart
    /\ page = "none"
    /\ secretInput = << >>
    /\ totpCode = Dashes
    /\ timerText = 30
    /\ statusBadge = "hidden"
    /\ refreshTimer = FALSE
    /\ inflight = << >>
    /\ sent = {}
    /\ hashed = NoInput
    /\ exchange = NoExchange
    /\ dec = NoDec
    /\ calls = NoCalls
    /\ ser = NoSer
    /\ app = NoApp
    /\ pc = "idle"
    /\ call = NoCall
    /\ secretBytes = << >>
    /\ err = FALSE
    /\ currentCounter = 0
    /\ i = 0
    /\ probes = 0
    /\ probed = 0
    /\ ret = NoRet
    /\ gen = NoGen
    /\ sum = ZeroDigest
    /\ hotp = NoOut

UiTick ==
    /\ now < UiStart + MaxUiTicks
    /\ now' = now + 1
    /\ UNCHANGED << pc, call, secretBytes, err, currentCounter, i, probes, probed, ret, gen, hotpVars, uiVars, auxVars >>

\* the page is opened with ?secret=urlSecret: lines 766-796
LoadPage(urlSecret) ==
    /\ page = "none"
    /\ page' = "loaded"
    /\ IF urlSecret # << >>
       THEN LET new == fetchTotp(urlSecret) \o updateProgress(urlSecret, now)
            IN /\ secretInput' = urlSecret
               /\ refreshTimer' = TRUE
               /\ timerText' = 30 - Seconds(now)
               /\ inflight' = inflight \o new
               /\ sent' = sent \cup Requests(new) \cup Requests(<< [req |-> StarsRequest] >>)
       ELSE /\ sent' = sent \cup Requests(<< [req |-> StarsRequest] >>)
            /\ UNCHANGED << secretInput, refreshTimer, timerText, inflight >>
    /\ UNCHANGED << totpCode, statusBadge, exchange, coreVars, hotpVars, auxVars >>

\* setInterval(updateProgress, 1000) fires
OnTimer ==
    /\ refreshTimer
    /\ Len(inflight) < MaxInflight
    /\ LET new == updateProgress(secretInput, now)
       IN /\ inflight' = inflight \o new
          /\ sent' = sent \cup Requests(new)
    /\ timerText' = 30 - Seconds(now)
    /\ UNCHANGED << page, secretInput, totpCode, statusBadge, refreshTimer, exchange, coreVars, hotpVars, auxVars >>

\* verifyCode up to its fetch, lines 739-747, with the typed code and window
VerifyCode(typedCode, typedWindow) ==
    /\ page = "loaded"
    /\ Len(inflight) < MaxInflight
    /\ LET secret == Trim(secretInput)
           code == Trim(typedCode)
           window == IF Trim(typedWindow) = << >> THEN << "1" >> ELSE Trim(typedWindow)
           new == IF secret = << >> \/ code = << >> THEN << >>
                  ELSE << [req |-> ValidateRequest(secret, code, window), reply |-> NoReply] >>
       IN /\ inflight' = inflight \o new
          /\ sent' = sent \cup Requests(new)
    /\ UNCHANGED << page, secretInput, totpCode, timerText, statusBadge, refreshTimer, exchange, coreVars, hotpVars, auxVars >>

\* the server answers a request: handleUI or handleValidate at the current time
ServerHandle(k) ==
    /\ k \in 1..Len(inflight)
    /\ inflight[k].reply = NoReply
    /\ inflight' = [inflight EXCEPT ![k].reply = serve(inflight[k].req, now)]
    /\ UNCHANGED << page, secretInput, totpCode, timerText, statusBadge, refreshTimer, sent, exchange, coreVars, hotpVars, auxVars >>

Remove(s, k) == SubSeq(s, 1, k - 1) \o SubSeq(s, k + 1, Len(s))

\* the continuation of fetchTotp (lines 732-733) or of verifyCode (lines 748-756)
OnReply(k) ==
    /\ k \in 1..Len(inflight)
    /\ inflight[k].reply # NoReply
    /\ inflight' = Remove(inflight, k)
    /\ IF inflight[k].req.path = "/"
       THEN /\ totpCode' = IF inflight[k].reply.totp # << >> THEN inflight[k].reply.totp ELSE totpCode
            /\ UNCHANGED statusBadge
       ELSE /\ statusBadge' = IF inflight[k].reply.valid THEN "verified" ELSE "invalid"
            /\ UNCHANGED totpCode
    /\ UNCHANGED << page, secretInput, timerText, refreshTimer, sent, exchange, coreVars, hotpVars, auxVars >>

NextUI ==
    \/ UiTick
    \/ \E urlSecret \in UrlSecrets : LoadPage(urlSecret)
    \/ OnTimer
    \/ \E typedCode \in TypedCodes \cup { totpCode }, typedWindow \in TypedWindows :
          VerifyCode(typedCode, typedWindow)
    \/ \E k \in 1..MaxInflight : ServerHandle(k)
    \/ \E k \in 1..MaxInflight : OnReply(k)

SpecUI == InitUI /\ [][NextUI]_vars

\* C8 as stated: no request issued by the served page (the first fetch of the
\* code, the periodic refresh, the verification) carries the shared secret.
C8_SecretNeverSent == \A r \in sent : r.secret = << >>


\* ---------------------------------------------------------------------
\* The served page with its timer, the clock and the server all running
\* ---------------------------------------------------------------------
\* setInterval keeps calling updateProgress, the clock keeps moving, the
\* server answers every request and every answer reaches the page. Nothing
\* ties a call of the timer to a particular second of the clock.
SpecUIFair ==
    /\ SpecUI
    /\ WF_vars(UiTick)
    /\ WF_vars(OnTimer)
    /\ WF_vars(\E k \in 1..MaxInflight : ServerHandle(k))
    /\ WF_vars(\E k \in 1..MaxInflight : OnReply(k))

\* the clock has crossed the step boundary after UiStart with a secret shown
CrossedBoundary ==
    /\ page = "loaded" /\ refreshTimer
    /\ secretInput = DemoSecret
    /\ now \div StepSize > UiStart \div StepSize

Frame(g) == calls[g]

\* lines 49 and 58: secretBytes is a local of the call
keyOf_shared(g) == calls[1].secretBytes
keyOf(g) == calls[g].secretBytes

\* lines 53 and 62: seconds / StepSize on int64
counterAt_neg(seconds) == GoDiv(-seconds, StepSize)
counterAt(seconds) == GoDiv(seconds, StepSize)

ConcSecrets == { DemoSecret, BadSecret }
ConcWindows == { 0, 1 }
ConcPasscodes == { generateTOTP(DemoSecret, 59).code, << "0", "0", "0", "0", "0", "0" >> }

InitConc == Init

\* a request handler calls generateTOTP(secret, t)
GoGenerateTOTP(g, secret, t) ==
    /\ Frame(g).pc = "idle"
    /\ calls' = [calls EXCEPT ![g] = [NoFrame EXCEPT !.pc = "decode", !.fn = "generateTOTP",
                                                     !.secret = secret, !.t = t]]
    /\ UNCHANGED << coreVars, hotpVars, uiVars, dec, ser, app >>

\* a request handler calls validateTOTP(passcode, secret, windowSteps)
GoValidateTOTP(g, passcode, secret, windowSteps) ==
    /\ Frame(g).pc = "idle"
    /\ calls' = [calls EXCEPT ![g] = [NoFrame EXCEPT !.pc = "decode", !.fn = "validateTOTP",
                                                     !.secret = secret, !.passcode = passcode,
                                                     !.windowSteps = windowSteps]]
    /\ UNCHANGED << coreVars, hotpVars, uiVars, dec, ser, app >>

\* lines 49-52 and 58-61: decodeBase32 and the check of its error
GoDecode(g) ==
    /\ Frame(g).pc = "decode"
    /\ LET f == Frame(g)
           d == decodeBase32(f.secret)
       IN calls' = [calls EXCEPT ![g] =
                      IF d.err
                      THEN [f EXCEPT !.err = TRUE, !.pc = "done",
                                     !.ret = [code |-> << >>, err |-> f.fn = "generateTOTP", valid |-> FALSE]]
                      ELSE [f EXCEPT !.secretBytes = d.bytes, !.pc = "counter"]]
    /\ UNCHANGED << coreVars, hotpVars, uiVars, dec, ser, app >>

\* line 53: the counter of t; line 62: the clock is read, then the counter of the reading
GoCounter(g) ==
    /\ Frame(g).pc = "counter"
    /\ LET f == Frame(g)
       IN calls' = [calls EXCEPT ![g] =
                      IF f.fn = "generateTOTP"
                      THEN [f EXCEPT !.counter = counterAt(f.t), !.pc = "hotp"]
                      ELSE [f EXCEPT !.t = now, !.counter = counterAt(now),
                                     !.i = loopStart(f.windowSteps), !.pc = "loop"]]
    /\ UNCHANGED << coreVars, hotpVars, uiVars, dec, ser, app >>

\* line 54: generateHOTP and the return
GoHotp(g) ==
    /\ Frame(g).pc = "hotp"
    /\ LET f == Frame(g)
       IN calls' = [calls EXCEPT ![g] =
                      [f EXCEPT !.pc = "done",
                                !.ret = [code |-> generateHOTP(keyOf(g), f.counter),
                                         err |-> FALSE, valid |-> FALSE]]]
    /\ UNCHANGED << coreVars, hotpVars, uiVars, dec, ser, app >>

\* lines 63-69: one iteration of the loop, or its exit
GoLoop(g) ==
    /\ Frame(g).pc = "loop"
    /\ LET f == Frame(g)
       IN calls' = [calls EXCEPT ![g] =
                      IF loopCond(f.i, f.windowSteps)
                      THEN IF generateHOTP(keyOf(g), f.counter + f.i) = f.passcode
                           THEN [f EXCEPT !.pc = "done",
                                          !.ret = [code |-> << >>, err |-> FALSE, valid |-> TRUE]]
                           ELSE [f EXCEPT !.i = f.i + 1]
                      ELSE [f EXCEPT !.pc = "done",
                                     !.ret = [code |-> << >>, err |-> FALSE, valid |-> FALSE]]]
    /\ UNCHANGED << coreVars, hotpVars, uiVars, dec, ser, app >>

\* the handler takes the result and the frame is gone
GoReturn(g) ==
    /\ Frame(g).pc = "done"
    /\ calls' = [calls EXCEPT ![g] = NoFrame]
    /\ UNCHANGED << coreVars, hotpVars, uiVars, dec, ser, app >>

NextConc ==
    \/ Tick
    \/ \E g \in Goroutines, secret \in ConcSecrets, t \in { -StepSize, 0, now } :
          GoGenerateTOTP(g, secret, t)
    \/ \E g \in Goroutines, passcode \in ConcPasscodes, secret \in ConcSecrets, windowSteps \in ConcWindows :
          GoValidateTOTP(g, passcode, secret, windowSteps)
    \/ \E g \in Goroutines : GoDecode(g)
    \/ \E g \in Goroutines : GoCounter(g)
    \/ \E g \in Goroutines : GoHotp(g)
    \/ \E g \in Goroutines : GoLoop(g)
    \/ \E g \in Goroutines : GoReturn(g)

SpecConc == InitConc /\ [][NextConc]_vars

\* the frame of g holds a counter made from an instant
HasCounter(g) == calls[g].pc \in { "hotp", "loop" } \/ (calls[g].pc = "done" /\ ~calls[g].err)

\* a <= b on uint64, each held as the int64 with the same bits
ULe(a, b) == IF (a < 0) = (b < 0) THEN a <= b ELSE b < 0

C18_Isolation ==
    \A g \in Goroutines :
        calls[g].pc = "done" =>
            calls[g].ret =
                IF calls[g].fn = "generateTOTP"
                THEN [code |-> generateTOTP(calls[g].secret, calls[g].t).code,
                      err |-> generateTOTP(calls[g].secret, calls[g].t).err, valid |-> FALSE]
                ELSE [code |-> << >>, err |-> FALSE,
                      valid |-> validateTOTP(calls[g].passcode, calls[g].secret,
                                             calls[g].windowSteps, calls[g].t)]

\* a validation that accepted its passcode on the second probe has finished
\* while a generation for another instant is between its steps
C18_Witness ==
    /\ calls[1].pc = "done" /\ calls[1].fn = "validateTOTP" /\ calls[1].ret.valid
    /\ calls[1].i = 0 /\ calls[1].windowSteps = 1
    /\ calls[2].pc = "hotp" /\ calls[2].t # calls[1].t

\* ---------------------------------------------------------------------
\* The decoders applied to a secret and to a respelling of it
\* ---------------------------------------------------------------------
\* most letters lowercased or whitespace characters inserted in one respelling
MaxRespell == 2
Whitespace == { " ", "\t", "\n" }
DecSecrets ==
    { << "A" >>, << "M", "Y" >>, << "M", "F", "R", "G", "G" >>,
      << "J", "B", "S", "W", "Y", "3", "D", "P" >>, EmptySecret, PaddedSecret }

ToLowerChar(c) == IF \E n \in 1..26 : Upper[n] = c
                  THEN Lower[CHOOSE n \in 1..26 : Upper[n] = c]
                  ELSE c
InsertAt(s, k, c) == SubSeq(s, 1, k) \o << c >> \o SubSeq(s, k + 1, Len(s))

InitDecode == Init

\* a secret arrives
PickSecret(s) ==
    /\ dec.phase = "none"
    /\ dec' = [NoDec EXCEPT !.phase = "picked", !.secret = s, !.variant = s]
    /\ UNCHANGED << coreVars, hotpVars, uiVars, calls, ser, app >>

\* the same secret with one more letter in lower case
LowerLetter(k) ==
    /\ dec.phase = "picked" /\ dec.edits < MaxRespell
    /\ k \in 1..Len(dec.variant)
    /\ ToLowerChar(dec.variant[k]) # dec.variant[k]
    /\ dec' = [dec EXCEPT !.variant[k] = ToLowerChar(dec.variant[k]), !.edits = dec.edits + 1]
    /\ UNCHANGED << coreVars, hotpVars, uiVars, calls, ser, app >>

\* the same secret with one more whitespace character in it
InsertWhitespace(k, c) ==
    /\ dec.phase = "picked" /\ dec.edits < MaxRespell
    /\ k \in 0..Len(dec.variant)
    /\ dec' = [dec EXCEPT !.variant = InsertAt(dec.variant, k, c), !.edits = dec.edits + 1]
    /\ UNCHANGED << coreVars, hotpVars, uiVars, calls, ser, app >>

\* every decoder is applied
Decode ==
    /\ dec.phase = "picked"
    /\ dec' = [dec EXCEPT !.phase = "decoded",
                          !.go = decodeBase32Raw(dec.secret),
                          !.goVariant = decodeBase32Raw(dec.variant),
                          !.cf = base32ToUint8Array(dec.variant),
                          !.cfStripped = base32ToUint8Array(SkipOutsideAlphabet(dec.variant)),
                          !.browser = base32ToBuf(dec.variant)]
    /\ UNCHANGED << coreVars, hotpVars, uiVars, calls, ser, app >>

\* the next secret
Forget ==
    /\ dec.phase = "decoded"
    /\ dec' = NoDec
    /\ UNCHANGED << coreVars, hotpVars, uiVars, calls, ser, app >>

NextDecode ==
    \/ \E s \in DecSecrets : PickSecret(s)
    \/ \E k \in 1..8 : LowerLetter(k)
    \/ \E k \in 0..10, c \in Whitespace : InsertWhitespace(k, c)
    \/ Decode
    \/ Forget

SpecDecode == InitDecode /\ [][NextDecode]_vars

\* C16: decoding a secret, the secret with letters lowercased and the secret
\* with whitespace characters inserted anywhere give the same outcome in Go's
\* decodeBase32: the same bytes, or a failure in each case.
C16_CaseAndWhitespace ==
    dec.phase = "decoded" =>
        /\ dec.goVariant.err = dec.go.err
        /\ ~dec.go.err => dec.goVariant.bytes = dec.go.bytes

\* the secret with every whitespace character removed
StripWhitespace(s) == SelectSeq(s, LAMBDA c : c \notin (Whitespace \cup { "\r" }))

\* C17: in each decoder (Go decodeBase32, base32ToUint8Array, base32ToBuf) a
\* decode that succeeds with zero bytes had an input that is empty after
\* stripping.
C17_EmptyOnlyIfEmpty ==
    dec.phase = "decoded" =>
        \A out \in { dec.goVariant, dec.cf, dec.browser } :
            (~out.err /\ out.bytes = << >>) => StripWhitespace(dec.variant) = << >>

\* C24: base32ToUint8Array returns for every string the byte array, in length
\* and contents, that it returns for the string with every character outside
\* the Base32 alphabet (spaces, '=' padding, other symbols) removed.
C24_SkipsOutsideAlphabet ==
    dec.phase = "decoded" => dec.cf.bytes = dec.cfStripped.bytes

\* ---------------------------------------------------------------------
\* functions/index.js and the IndexJS template of main.go: the Cloudflare
\* Pages function of the route /
\* ---------------------------------------------------------------------
\* the secrets and the other parameters of the requests of an HTTP client
HttpSecrets == { DemoSecret, SpacedSecret, BadSecret, BlankSecret, EmptySecret }
HttpCodes == ConcPasscodes \cup { << >> }
HttpWindows == { << "0" >>, << "x" >>, << >> }
HttpAccepts == { AcceptJSON, "text/html", "" }

\* generateTOTP of functions/index.js, lines 23-55: the code of a non-empty
\* key at the step of t, computed once for the keys and steps of the requests
JsKeys == { base32ToUint8Array(s).bytes : s \in HttpSecrets } \ { << >> }
\* the steps the bundled validate function probes with window 1
JsSteps == { c + k : c \in ClockSteps, k \in -1..1 }
JsTable == [key \in JsKeys |-> [counter \in JsSteps |-> jsCode(HmacSHA1(key, CounterBytes(counter)))]]

\* crypto.subtle.importKey throws a DataError for a key of length zero
jsGenerateTOTP(secret, t) ==
    LET keyBytes == base32ToUint8Array(secret).bytes
    IN IF keyBytes = << >> THEN [code |-> << >>, err |-> TRUE]
       ELSE [code |-> JsTable[keyBytes][t \div StepSize], err |-> FALSE]

\* the response made of the outcome of generateTOTP, or next()
jsResponse(r) ==
    IF r.err
    THEN [status |-> 400, type |-> "application/json", error |-> "Invalid secret",
          totp |-> << >>, valid |-> FALSE]
    ELSE [status |-> 200, type |-> "application/json", error |-> "", totp |-> r.code, valid |-> FALSE]
next == [status |-> 200, type |-> "text/html", error |-> "", totp |-> << >>, valid |-> FALSE]

\* onRequest of functions/index.js, lines 57-76; totp is the outcome of
\* await generateTOTP(secret)
onRequest(req, totp) ==
    IF req.secret # << >> THEN jsResponse(totp) ELSE next

\* onRequest of the IndexJS template, main.go lines 856-876
onRequestTemplate(req, totp) ==
    LET isJSON == req.accept = AcceptJSON \/ req.format = "json"
    IN IF req.secret # << >> /\ isJSON THEN jsResponse(totp) ELSE next

\* ---------------------------------------------------------------------
\* main.go, ValidateJS: the Cloudflare Pages function of the route /validate
\* ---------------------------------------------------------------------
\* parseInt(s) of a decimal text: the number written by the longest prefix of
\* digits after blanks and a sign, NaN when there is no digit
RECURSIVE DigitPrefix(_)
DigitPrefix(s) == IF Len(s) > 0 /\ (\E n \in 1..10 : DigitChars[n] = Head(s))
                  THEN << Head(s) >> \o DigitPrefix(Tail(s))
                  ELSE << >>
parseInt(s) ==
    LET t == TrimLeft(s)
        neg == Len(t) > 0 /\ t[1] = "-"
        plus == Len(t) > 0 /\ t[1] = "+"
        d == DigitPrefix(IF neg \/ plus THEN Tail(t) ELSE t)
    IN IF d = << >> THEN [n |-> 0, nan |-> TRUE]
       ELSE [n |-> IF neg THEN -DecimalValue(d) ELSE DecimalValue(d), nan |-> FALSE]

\* ValidateJS onRequest, lines 948-954: the loop from offset iv on.
\* generateHOTP throws at importKey for a key of length zero.
RECURSIVE jsValidateLoop(_, _, _, _, _)
jsValidateLoop(keyBytes, code, currentCounterJs, iv, window) ==
    IF ~(iv <= window) THEN [isValid |-> FALSE, threw |-> FALSE]
    ELSE IF keyBytes = << >> THEN [isValid |-> FALSE, threw |-> TRUE]
    ELSE IF JsTable[keyBytes][currentCounterJs + iv] = code THEN [isValid |-> TRUE, threw |-> FALSE]
    ELSE jsValidateLoop(keyBytes, code, currentCounterJs, iv + 1, window)

\* the response of the catch block, lines 959-964
catchResponse ==
    [status |-> 500, type |-> "application/json", error |-> "Invalid operation", totp |-> << >>,
     valid |-> FALSE]

\* ValidateJS onRequest, lines 929-966, at the clock reading t. A comparison
\* with NaN is false: the loop body does not run for a window that is no number.
validateOnRequest(req, t) ==
    LET window == parseInt(IF req.window = << >> THEN << "1" >> ELSE req.window)
        r == IF window.nan THEN [isValid |-> FALSE, threw |-> FALSE]
             ELSE jsValidateLoop(base32ToUint8Array(req.secret).bytes, req.code, t \div StepSize,
                                 -window.n, window.n)
    IN IF req.secret = << >> \/ req.code = << >>
       THEN [status |-> 400, type |-> "application/json", error |-> "Missing secret or code",
             totp |-> << >>, valid |-> FALSE]
       ELSE IF r.threw THEN catchResponse
       ELSE [status |-> 200, type |-> "application/json", error |-> "", totp |-> << >>,
             valid |-> r.isValid]

InitHTTP == Init

\* an HTTP client sends a request; the Go server answers it, and so do the
\* two variants of the Pages function for the route / and the Pages function
\* for the route /validate
DirectRequest(path, secret, code, window, format, accept) ==
    /\ LET req == [host |-> "origin", path |-> path, secret |-> secret, code |-> code,
                   window |-> window, format |-> format, accept |-> accept]
       IN exchange' = [req |-> req,
                       go |-> serve(req, now),
                       cf |-> IF path = "/" THEN onRequest(req, jsGenerateTOTP(secret, now))
                              ELSE NoReply,
                       tmpl |-> IF path = "/" THEN onRequestTemplate(req, jsGenerateTOTP(secret, now))
                                ELSE NoReply,
                       val |-> IF path = "/validate" THEN validateOnRequest(req, now) ELSE NoReply]
    /\ UNCHANGED << page, secretInput, totpCode, timerText, statusBadge, refreshTimer, inflight, sent,
                    coreVars, hotpVars, auxVars >>

NextHTTP ==
    \/ Tick
    \/ \E secret \in HttpSecrets, accept \in HttpAccepts, format \in { "json", "" } :
          DirectRequest("/", secret, << >>, << >>, format, accept)
    \/ \E secret \in HttpSecrets, code \in HttpCodes, window \in HttpWindows, accept \in HttpAccepts :
          DirectRequest("/validate", secret, code, window, "", accept)

SpecHTTP == InitHTTP /\ [][NextHTTP]_vars

\* the request of the exchange asks handleUI for a code as JSON
AsksJSON == exchange.req.accept = AcceptJSON \/ exchange.req.format = "json"

\* C14: handleUI answers a request with a non-empty secret and JSON requested
\* either with {"totp": code}, code of six digits, when the secret decodes, or
\* with status 400 and {"error":"invalid secret"} when it does not.
C14_GenerateEndpoint ==
    (exchange.req.path = "/" /\ exchange.req.secret # << >> /\ AsksJSON) =>
        IF decodeBase32(exchange.req.secret).err
        THEN exchange.go = [status |-> 400, type |-> "application/json", error |-> "invalid secret",
                            totp |-> << >>, valid |-> FALSE]
        ELSE /\ exchange.go.status = 200 /\ exchange.go.type = "application/json"
             /\ exchange.go.error = ""
             /\ IsCode(exchange.go.totp)

\* a secret that does not decode was answered with 400
C14_Witness ==
    /\ exchange.req.path = "/" /\ exchange.req.secret = BadSecret /\ AsksJSON
    /\ exchange.go.status = 400 /\ exchange.go.error = "invalid secret"

\* C15: handleValidate answers 400 only when the secret or the code is
\* missing; with both present it answers {"valid": true} or {"valid": false},
\* and {"valid": false} for a secret that does not decode.
C15_ValidateEndpoint ==
    exchange.req.path = "/validate" =>
        /\ exchange.go.status = 400 => (exchange.req.secret = << >> \/ exchange.req.code = << >>)
        /\ (exchange.req.secret # << >> /\ exchange.req.code # << >>) =>
              /\ exchange.go.status = 200 /\ exchange.go.type = "application/json"
              /\ exchange.go.error = ""
              /\ decodeBase32(exchange.req.secret).err => ~exchange.go.valid

\* a secret that does not decode was answered with {"valid": false}
C15_Witness ==
    /\ exchange.req.path = "/validate" /\ exchange.req.secret = BadSecret
    /\ exchange.req.code # << >>
    /\ exchange.go.status = 200 /\ ~exchange.go.valid

\* the kind of a response: a code as JSON, an error as JSON, or the HTML page
Kind(reply) == IF reply.type = "application/json"
               THEN (IF reply.status = 200 THEN "code" ELSE "error")
               ELSE "html"

\* C19: for every request of the route /, functions/index.js, the IndexJS
\* template and handleUI give the same kind of response, and a JSON response
\* only when a secret is present and JSON is requested.
C19_Parity ==
    exchange.req.path = "/" =>
        /\ Kind(exchange.cf) = Kind(exchange.go)
        /\ Kind(exchange.tmpl) = Kind(exchange.go)
        /\ Kind(exchange.cf) # "html" => (exchange.req.secret # << >> /\ AsksJSON)

\* C23: the Pages function of /validate answers a request with a non-empty
\* secret and code whose secret holds no Base32 symbol (an empty key) with
\* {valid: false}, not with an error status.
C23_NoSymbolIsInvalid ==
    (/\ exchange.req.path = "/validate"
     /\ exchange.req.secret # << >> /\ exchange.req.code # << >>
     /\ SkipOutsideAlphabet(exchange.req.secret) = << >>) =>
        /\ exchange.val.status = 200
        /\ exchange.val.error = ""
        /\ ~exchange.val.valid

\* ---------------------------------------------------------------------
\* The browser page with accounts: its script computes the codes itself
\* (base32ToBuf, generateTOTP) and keeps the accounts in localStorage
\* ---------------------------------------------------------------------
\* generations of codes that may be pending at once, and seconds the clock moves
MaxPending == 2
MaxAppTicks == 1
AppStart == (2 * StepSize) - 1

\* the accounts there are: the id and the secret of each
AccountIds == { 1, 2 }
AccountSecret(id) == IF id = 1 THEN DemoSecret ELSE PaddedSecret

\* generateTOTP(secret, time), lines 92-127: null (err) when importKey rejects
\* the key, otherwise the six digits; computed once per secret and step
AppSteps == { t \div StepSize : t \in AppStart..(AppStart + MaxAppTicks) }
BrowserTable ==
    [id \in AccountIds |-> [counter \in AppSteps |->
        jsCode(HmacSHA1(base32ToBuf(AccountSecret(id)).bytes, counterBytesBrowser(Limbs(counter))))]]
browserTOTP(secret, t) ==
    IF base32ToBuf(secret).bytes = << >> \/ ~(\E id \in AccountIds : AccountSecret(id) = secret)
    THEN [code |-> << >>, err |-> TRUE]
    ELSE [code |-> BrowserTable[CHOOSE id \in AccountIds : AccountSecret(id) = secret][t \div StepSize],
          err |-> FALSE]

\* fetchTotp, lines 258-261: the generations it starts (Date.now() is read
\* when generateTOTP is called)
appFetchTotp(secretValue, t) ==
    IF Trim(secretValue) = << >> THEN << >>
    ELSE << [secret |-> Trim(secretValue), time |-> t] >>

\* updateProgress, lines 248-256: the fetch at second 0
appUpdateProgress(secretValue, t) == IF Seconds(t) = 0 THEN appFetchTotp(secretValue, t) ELSE << >>

\* showAccountTotp(acc), lines 333-341
showAccountTotp(a, id, t) ==
    [a EXCEPT !.activeAccountId = id,
              !.secretInput = AccountSecret(id),
              !.refreshTimer = TRUE,
              !.pending = a.pending \o appFetchTotp(AccountSecret(id), t)
                                   \o appUpdateProgress(AccountSecret(id), t)]

\* lines 345-355 and 361-371: the display without an active account
clearDisplay(a) ==
    [a EXCEPT !.activeAccountId = 0, !.secretInput = << >>, !.totpCode = Dashes,
              !.refreshTimer = FALSE]

InitApp ==
    /\ Init
    /\ now = AppStart

\* a second passes
AppTick ==
    /\ now < AppStart + MaxAppTicks
    /\ now' = now + 1
    /\ UNCHANGED << pc, call, secretBytes, err, currentCounter, i, probes, probed, ret, gen,
                    hotpVars, uiVars, auxVars >>

\* the page is opened without a secret in its URL (lines 512-523), with the
\* accounts found in localStorage
OpenPage(stored) ==
    /\ app.phase = "none"
    /\ LET a == [phase |-> "open", accounts |-> stored, activeAccountId |-> 0,
                 secretInput |-> << >>, totpCode |-> Dashes, refreshTimer |-> FALSE,
                 pending |-> << >>]
       IN app' = IF Len(stored) > 0 THEN showAccountTotp(a, stored[1], now) ELSE a
    /\ UNCHANGED << coreVars, hotpVars, uiVars, dec, calls, ser >>

\* a click on the card of an account
ShowAccountTotp(id) ==
    /\ app.phase = "open"
    /\ \E k \in 1..Len(app.accounts) : app.accounts[k] = id
    /\ Len(showAccountTotp(app, id, now).pending) <= MaxPending
    /\ app' = showAccountTotp(app, id, now)
    /\ UNCHANGED << coreVars, hotpVars, uiVars, dec, calls, ser >>

\* deleteAccount(id), lines 343-357
DeleteAccount(id) ==
    /\ app.phase = "open"
    /\ \E k \in 1..Len(app.accounts) : app.accounts[k] = id
    /\ app' = [(IF app.activeAccountId = id THEN clearDisplay(app) ELSE app)
                  EXCEPT !.accounts = SelectSeq(app.accounts, LAMBDA x : x # id)]
    /\ UNCHANGED << coreVars, hotpVars, uiVars, dec, calls, ser >>

\* deleteAllAccounts, lines 359-373, confirmed
DeleteAllAccounts ==
    /\ app.phase = "open"
    /\ app.accounts # << >>
    /\ app' = [clearDisplay(app) EXCEPT !.accounts = << >>]
    /\ UNCHANGED << coreVars, hotpVars, uiVars, dec, calls, ser >>

\* saveAccount(name, secret), lines 375-379
SaveAccount(id) ==
    /\ app.phase = "open"
    /\ ~(\E k \in 1..Len(app.accounts) : app.accounts[k] = id)
    /\ app' = [app EXCEPT !.accounts = Append(app.accounts, id)]
    /\ UNCHANGED << coreVars, hotpVars, uiVars, dec, calls, ser >>

\* the interval timer calls updateProgress
OnInterval ==
    /\ app.phase = "open"
    /\ app.refreshTimer
    /\ Len(app.pending) + Len(appUpdateProgress(app.secretInput, now)) <= MaxPending
    /\ app' = [app EXCEPT !.pending = app.pending \o appUpdateProgress(app.secretInput, now)]
    /\ UNCHANGED << coreVars, hotpVars, uiVars, dec, calls, ser >>

\* fetchTotp, line 262: if (totp) totpCode.textContent = totp
gotTotp(a, totp) == [a EXCEPT !.totpCode = IF ~totp.err THEN totp.code ELSE a.totpCode]

\* a pending generateTOTP resolves and fetchTotp continues after its await
Complete(k) ==
    /\ app.phase = "open"
    /\ k \in 1..Len(app.pending)
    /\ app' = [gotTotp(app, browserTOTP(app.pending[k].secret, app.pending[k].time))
                  EXCEPT !.pending = Remove(app.pending, k)]
    /\ UNCHANGED << coreVars, hotpVars, uiVars, dec, calls, ser >>

NextApp ==
    \/ AppTick
    \/ \E stored \in { << >>, << 1 >>, << 1, 2 >> } : OpenPage(stored)
    \/ \E id \in AccountIds : ShowAccountTotp(id)
    \/ \E id \in AccountIds : DeleteAccount(id)
    \/ DeleteAllAccounts
    \/ \E id \in AccountIds : SaveAccount(id)
    \/ OnInterval
    \/ \E k \in 1..MaxPending : Complete(k)

SpecApp == InitApp /\ [][NextApp]_vars

\* C28: once every pending generation has completed, the code display shows
\* a code computed from the secret in the secret field, or ------ when no
\* account is active; a generation started for an account selected before or
\* deleted since never overwrites it.
C28_DisplayBelongsToSelection ==
    (app.phase = "open" /\ app.pending = << >>) =>
        IF app.activeAccountId = 0
        THEN app.totpCode = Dashes
        ELSE \E t \in AppStart..(AppStart + MaxAppTicks) :
                app.totpCode = browserTOTP(app.secretInput, t).code
====
